---- MODULE Spec2Model ----
(***************************************************************************)
(* Option classes of highcharts: drag-drop options, accessibility language *)
(* options, the Pareto series and the Venn data point.  Every class is a   *)
(* bag of validated properties with a from_dict / to_dict pair.  Python    *)
(* values are tagged records, an exception is the value Raise(e), a dict   *)
(* and a kwargs mapping are functions from keys to values.                 *)
(***************************************************************************)
EXTENDS Integers, Sequences, FiniteSets, TLC

VARIABLES self, call, ret

vars == <<self, call, ret>>

(***************************************************************************)
(* Python values                                                           *)
(***************************************************************************)
None == [t |-> "NoneType"]
PBool(b) == [t |-> "bool", v |-> b]
PNum(n) == [t |-> "int", v |-> n]
PStr(s) == [t |-> "str", v |-> s]
PDict(f) == [t |-> "dict", v |-> f]
PList(seq) == [t |-> "list", v |-> seq]
Raise(e) == [t |-> "raise", exc |-> e]
GradientObj == [t |-> "Gradient"]
PatternObj == [t |-> "Pattern"]
EmptyDict == [k \in {} |-> None]

\* constants.EnforcedNull, the null that is to be written out
EnforcedNull == [t |-> "EnforcedNullType"]

IsRaise(r) == r.t = "raise"

\* `not value`
Falsy(value) ==
    CASE value.t = "NoneType" -> TRUE
      [] value.t = "bool" -> ~value.v
      [] value.t = "int" -> value.v = 0
      [] value.t = "str" -> value.v = ""
      [] value.t = "dict" -> DOMAIN value.v = {}
      [] value.t = "list" -> value.v = <<>>
      [] OTHER -> FALSE

\* dict.pop(key, default) / dict.get(key, default): the value read
Pop(d, key, default) == IF key \in DOMAIN d THEN d[key] ELSE default

\* self.<name> = value on a Python object (creates the attribute if absent)
SetAttr(obj, name, value) ==
    [f \in DOMAIN obj \cup {name} |-> IF f = name THEN value ELSE obj[f]]

\* the statement self.<name> = <r>, where evaluating r may have raised, in a
\* body that may already have raised
Assign(obj, name, r) ==
    IF IsRaise(obj) THEN obj
    ELSE IF IsRaise(r) THEN r
    ELSE SetAttr(obj, name, r)

\* the statements self.<name> = <r> of a body, in order: sets is the sequence of the
\* pairs <<name, r>>
RECURSIVE AssignAll(_, _)
AssignAll(obj, sets) ==
    IF sets = <<>> THEN obj
    ELSE AssignAll(Assign(obj, sets[1][1], sets[1][2]), Tail(sets))

(***************************************************************************)
(* Sample strings.  TLC strings are atomic, so `needle in s` is decided    *)
(* from the table of the sample strings that contain each needle.          *)
(***************************************************************************)
GradientJSON == "{\"linearGradient\": {\"x1\": 0}}"
PatternJSON == "{\"patternOptions\": {\"width\": 4}}"
SubstringTable == {<<"linearGradient", GradientJSON>>, <<"patternOptions", PatternJSON>>}

\* `needle in value` for a str or a dict value
Contains(needle, value) ==
    CASE value.t = "str" -> <<needle, value.v>> \in SubstringTable
      [] value.t = "dict" -> needle \in DOMAIN value.v
      [] OTHER -> FALSE

\* constants.SUPPORTED_CURSOR_VALUES (the values the docstring lists; sample)
SUPPORTED_CURSOR_VALUES == {"move", "pointer", "grab", "ew-resize", "ns-resize"}

(***************************************************************************)
(* validator_collection.validators                                         *)
(***************************************************************************)
\* validators.string(value, allow_empty = ...), coerce_value = False
validators_string(value, allow_empty) ==
    IF Falsy(value)
    THEN IF allow_empty THEN None ELSE Raise("EmptyValueError")
    ELSE IF value.t = "str" THEN value ELSE Raise("CannotCoerceError")

\* validators.numeric(value, allow_empty = True, minimum = ...); no sample string
\* is numeric
validators_numeric(value, hasMin, minimum) ==
    CASE value.t = "NoneType" -> None
      [] value.t = "int" ->
            IF hasMin /\ value.v < minimum THEN Raise("MinimumValueError") ELSE value
      [] value.t = "bool" -> value
      [] OTHER -> Raise("CannotCoerceError")

(***************************************************************************)
(* DragHandle                                                              *)
(***************************************************************************)
\* the value DragHandle.color stores; parsed: Gradient/Pattern.from_json succeeded
DragHandle_color(value, parsed) ==
    IF Falsy(value) THEN None
    ELSE IF value.t \in {"Gradient", "Pattern"} THEN value
    ELSE IF value.t \in {"dict", "str"} /\ Contains("linearGradient", value)
         THEN IF parsed \/ value.t = "dict" THEN GradientObj
              ELSE validators_string(value, FALSE)
    ELSE IF value.t = "dict" /\ Contains("linear_gradient", value) THEN GradientObj
    ELSE IF value.t \in {"dict", "str"} /\ Contains("patternOptions", value)
         THEN IF parsed \/ value.t = "dict" THEN PatternObj
              ELSE validators_string(value, FALSE)
    ELSE IF value.t = "dict" /\ Contains("pattern_options", value) THEN PatternObj
    ELSE Raise("HighchartsValueError")

\* the value DragHandle.cursor stores (sample values are lower case already)
DragHandle_cursor(value) ==
    IF Falsy(value) THEN None
    ELSE LET s == validators_string(value, FALSE)
         IN  IF IsRaise(s) THEN s
             ELSE IF s.v \notin SUPPORTED_CURSOR_VALUES THEN Raise("HighchartsValueError")
             ELSE s

\* the value DragHandle.line_color stores
DragHandle_line_color(value, parsed) ==
    IF Falsy(value) THEN None
    ELSE IF value.t \in {"Gradient", "Pattern"} THEN value
    ELSE IF value.t \in {"dict", "str"} /\ Contains("linearGradient", value)
         THEN IF parsed \/ value.t = "dict" THEN GradientObj
              ELSE validators_string(value, FALSE)
    ELSE IF value.t = "dict" /\ Contains("linear_gradient", value) THEN GradientObj
    ELSE IF value.t \in {"dict", "str"} /\ Contains("patternOptions", value)
         THEN IF parsed \/ value.t = "dict" THEN PatternObj
              ELSE validators_string(value, FALSE)
    ELSE IF value.t = "dict" /\ Contains("pattern_options", value) THEN PatternObj
    ELSE Raise("HighchartsValueError")

DragHandle_fields == [t |-> "DragHandle", _class_name |-> None, _color |-> None,
                      _cursor |-> None, _line_color |-> None, _line_width |-> None,
                      _path_formatter |-> None, _z_index |-> None]

\* DragHandle(**kwargs): the instance, or the exception the first failing setter raises
DragHandle_init(kwargs, parsed) ==
    AssignAll(
        DragHandle_fields,
        <<
            <<"_class_name", validators_string(Pop(kwargs, "class_name", PStr("highcharts-drag-handle")), TRUE)>>,
            <<"_color", DragHandle_color(Pop(kwargs, "color", PStr("#fff")), parsed)>>,
            <<"_cursor", DragHandle_cursor(Pop(kwargs, "cursor", None))>>,
            <<"_line_color", DragHandle_line_color(Pop(kwargs, "line_color", PStr("rgba(0, 0, 0, 0.6)")), parsed)>>,
            <<"_line_width", validators_numeric(Pop(kwargs, "line_width", PNum(1)), TRUE, 0)>>,
            <<"_path_formatter", validators_string(Pop(kwargs, "path_formatter", None), TRUE)>>,
            <<"_z_index", validators_numeric(Pop(kwargs, "z_index", PNum(901)), FALSE, 0)>>
        >>)

\* DragHandle.from_dict(as_dict)
DragHandle_from_dict(as_dict, parsed) ==
    DragHandle_init(
        [class_name |-> Pop(as_dict, "className", PStr("highcharts-drag-handle")),
         color |-> Pop(as_dict, "color", PStr("#fff")),
         cursor |-> Pop(as_dict, "cursor", None),
         line_color |-> Pop(as_dict, "lineColor", PStr("rgba(0, 0, 0, 0.6)")),
         line_width |-> Pop(as_dict, "lineWidth", PNum(1)),
         path_formatter |-> Pop(as_dict, "pathFormatter", None),
         z_index |-> Pop(as_dict, "zIndex", PNum(901))], parsed)

(***************************************************************************)
(* HighchartsMeta.trim_dict and decorators.class_sensitive                 *)
(***************************************************************************)
\* trim_dict(untrimmed): the keys whose value is None are left out and an enforced
\* null is written as None.  Nested option objects are handed over already converted
\* by their own to_dict (Nested below).
trim_dict(untrimmed) ==
    [k \in {j \in DOMAIN untrimmed : untrimmed[j] # None} |->
        IF untrimmed[k] = EnforcedNull THEN None ELSE untrimmed[k]]

\* the dict form of a nested option object inside trim_dict
Nested(value, as_dict) == IF value = None THEN None ELSE PDict(as_dict)

\* @class_sensitive(cls) on a setter: None stays None, an instance of cls is kept,
\* a dict goes through cls.from_dict (converted), anything else is rejected
class_sensitive(value, cls, converted) ==
    CASE value.t = "NoneType" -> None
      [] value.t = cls -> value
      [] value.t = "dict" -> converted
      [] OTHER -> Raise("HighchartsValueError")

\* DragHandle.to_dict()
DragHandle_to_dict(obj) ==
    trim_dict([className |-> obj._class_name, color |-> obj._color, cursor |-> obj._cursor,
               lineColor |-> obj._line_color, lineWidth |-> obj._line_width,
               pathFormatter |-> obj._path_formatter, zIndex |-> obj._z_index])

(***************************************************************************)
(* GuideBoxOptions                                                         *)
(***************************************************************************)
\* the value GuideBoxOptions.color stores
GuideBoxOptions_color(value, parsed) ==
    IF Falsy(value) THEN None
    ELSE IF value.t \in {"Gradient", "Pattern"} THEN value
    ELSE IF value.t \in {"dict", "str"} /\ Contains("linearGradient", value)
         THEN IF parsed \/ value.t = "dict" THEN GradientObj
              ELSE validators_string(value, FALSE)
    ELSE IF value.t = "dict" /\ Contains("linear_gradient", value) THEN GradientObj
    ELSE IF value.t \in {"dict", "str"} /\ Contains("patternOptions", value)
         THEN IF parsed \/ value.t = "dict" THEN PatternObj
              ELSE validators_string(value, FALSE)
    ELSE IF value.t = "dict" /\ Contains("pattern_options", value) THEN PatternObj
    ELSE Raise("HighchartsValueError")

\* the value GuideBoxOptions.cursor stores
GuideBoxOptions_cursor(value) ==
    IF Falsy(value) THEN None
    ELSE LET s == validators_string(value, FALSE)
         IN  IF IsRaise(s) THEN s
             ELSE IF s.v \notin SUPPORTED_CURSOR_VALUES THEN Raise("HighchartsValueError")
             ELSE s

\* the value GuideBoxOptions.line_color stores
GuideBoxOptions_line_color(value, parsed) ==
    IF Falsy(value) THEN None
    ELSE IF value.t \in {"Gradient", "Pattern"} THEN value
    ELSE IF value.t \in {"dict", "str"} /\ Contains("linearGradient", value)
         THEN IF parsed \/ value.t = "dict" THEN GradientObj
              ELSE validators_string(value, FALSE)
    ELSE IF value.t = "dict" /\ Contains("linear_gradient", value) THEN GradientObj
    ELSE IF value.t \in {"dict", "str"} /\ Contains("patternOptions", value)
         THEN IF parsed \/ value.t = "dict" THEN PatternObj
              ELSE validators_string(value, FALSE)
    ELSE IF value.t = "dict" /\ Contains("pattern_options", value) THEN PatternObj
    ELSE Raise("HighchartsValueError")

GuideBoxOptions_fields == [t |-> "GuideBoxOptions", _class_name |-> None, _color |-> None,
                           _cursor |-> None, _line_color |-> None, _line_width |-> None,
                           _z_index |-> None]

\* GuideBoxOptions(**kwargs)
GuideBoxOptions_init(kwargs, parsed) ==
    AssignAll(
        GuideBoxOptions_fields,
        <<
            <<"_class_name", validators_string(Pop(kwargs, "class_name", PStr("highcharts-drag-box-default")), TRUE)>>,
            <<"_color", GuideBoxOptions_color(Pop(kwargs, "color", PStr("rgba(0, 0, 0, 0.1)")), parsed)>>,
            <<"_cursor", GuideBoxOptions_cursor(Pop(kwargs, "cursor", PStr("move")))>>,
            <<"_line_color", GuideBoxOptions_line_color(Pop(kwargs, "line_color", PStr("#888")), parsed)>>,
            <<"_line_width", validators_numeric(Pop(kwargs, "line_width", PNum(1)), TRUE, 0)>>,
            <<"_z_index", validators_numeric(Pop(kwargs, "z_index", PNum(900)), FALSE, 0)>>
        >>)

\* GuideBoxOptions.from_dict(as_dict)
GuideBoxOptions_from_dict(as_dict, parsed) ==
    GuideBoxOptions_init(
        [class_name |-> Pop(as_dict, "className", PStr("highcharts-drag-box-default")),
         color |-> Pop(as_dict, "color", PStr("rgba(0, 0, 0, 0.1)")),
         cursor |-> Pop(as_dict, "cursor", PStr("move")),
         line_color |-> Pop(as_dict, "lineColor", PStr("#888")),
         line_width |-> Pop(as_dict, "lineWidth", PNum(1)),
         z_index |-> Pop(as_dict, "zIndex", PNum(900))], parsed)

\* GuideBoxOptions.to_dict()
GuideBoxOptions_to_dict(obj) ==
    trim_dict([className |-> obj._class_name, color |-> obj._color, cursor |-> obj._cursor,
               lineColor |-> obj._line_color, lineWidth |-> obj._line_width,
               zIndex |-> obj._z_index])

(***************************************************************************)
(* GuideBox                                                                *)
(***************************************************************************)
\* the value GuideBox.default stores
GuideBox_default(value, parsed) ==
    class_sensitive(value, "GuideBoxOptions",
                    IF value.t = "dict" THEN GuideBoxOptions_from_dict(value.v, parsed) ELSE None)

\* GuideBox(**kwargs)
GuideBox_init(kwargs, parsed) ==
    Assign([t |-> "GuideBox", _default |-> None], "_default",
           GuideBox_default(Pop(kwargs, "default", None), parsed))

\* GuideBox.from_dict(as_dict): cls({...}) hands __init__ a positional argument, and
\* __init__(self, **kwargs) takes none
GuideBox_from_dict(as_dict, parsed) == Raise("TypeError")

\* GuideBox.to_dict()
GuideBox_to_dict(obj) ==
    trim_dict([default |-> IF obj._default = None THEN None
                           ELSE Nested(obj._default, GuideBoxOptions_to_dict(obj._default))])

(***************************************************************************)
(* DragDropOptions                                                         *)
(***************************************************************************)
\* the value an Optional[bool] setter stores: None, or bool(value)
OptionalBool(value) == IF value = None THEN None ELSE PBool(~Falsy(value))

\* the value DragDropOptions.draggable_x stores
DragDropOptions_draggable_x(value) == OptionalBool(value)

\* the value DragDropOptions.draggable_y stores
DragDropOptions_draggable_y(value) == OptionalBool(value)

\* the value DragDropOptions.drag_handle stores
DragDropOptions_drag_handle(value, parsed) ==
    class_sensitive(value, "DragHandle",
                    IF value.t = "dict" THEN DragHandle_from_dict(value.v, parsed) ELSE None)

\* the value DragDropOptions.guide_box stores
DragDropOptions_guide_box(value, parsed) ==
    class_sensitive(value, "GuideBox",
                    IF value.t = "dict" THEN GuideBox_from_dict(value.v, parsed) ELSE None)

\* the value DragDropOptions.live_redraw stores
DragDropOptions_live_redraw(value) == OptionalBool(value)

\* the attributes DragDropOptions.__init__ sets before it runs the setters
DragDropOptions_fields ==
    [_draggable_x |-> None, _draggable_y |-> None, _drag_handle |-> None,
     _drag_max_x |-> None, _drag_max_y |-> None, _drag_min_x |-> None, _drag_min_y |-> None,
     _drag_precision_x |-> None, _drag_precision_y |-> None, _drag_sensitivity |-> PNum(2),
     _group_by |-> None, _guide_box |-> None, _live_redraw |-> PBool(TRUE)]

\* the body of DragDropOptions.__init__ run on the object s
DragDropOptions_init_body(s, kwargs, parsed) ==
    AssignAll(
        [f \in DOMAIN s \cup DOMAIN DragDropOptions_fields |->
            IF f \in DOMAIN DragDropOptions_fields THEN DragDropOptions_fields[f] ELSE s[f]],
        <<
            <<"_draggable_x", DragDropOptions_draggable_x(Pop(kwargs, "draggable_x", None))>>,
            <<"_draggable_y", DragDropOptions_draggable_y(Pop(kwargs, "draggable_y", None))>>,
            <<"_drag_handle", DragDropOptions_drag_handle(Pop(kwargs, "drag_handle", None), parsed)>>,
            <<"_drag_max_x", validators_numeric(Pop(kwargs, "drag_max_x", None), FALSE, 0)>>,
            <<"_drag_max_y", validators_numeric(Pop(kwargs, "drag_max_y", None), FALSE, 0)>>,
            <<"_drag_min_x", validators_numeric(Pop(kwargs, "drag_min_x", None), FALSE, 0)>>,
            <<"_drag_min_y", validators_numeric(Pop(kwargs, "drag_min_y", None), FALSE, 0)>>,
            <<"_drag_precision_x", validators_numeric(Pop(kwargs, "drag_precision_x", None), TRUE, 0)>>,
            <<"_drag_precision_y", validators_numeric(Pop(kwargs, "drag_precision_y", None), TRUE, 0)>>,
            <<"_drag_sensitivity", validators_numeric(Pop(kwargs, "drag_sensitivity", PNum(2)), TRUE, 0)>>,
            <<"_group_by", validators_string(Pop(kwargs, "group_by", None), TRUE)>>,
            <<"_guide_box", DragDropOptions_guide_box(Pop(kwargs, "guide_box", None), parsed)>>,
            <<"_live_redraw", DragDropOptions_live_redraw(Pop(kwargs, "live_redraw", PBool(TRUE)))>>
        >>)

\* DragDropOptions(**kwargs)
DragDropOptions_init(kwargs, parsed) ==
    DragDropOptions_init_body([t |-> "DragDropOptions"], kwargs, parsed)

\* DragDropOptions.from_dict(as_dict)
DragDropOptions_from_dict(as_dict, parsed) ==
    DragDropOptions_init(
        [draggable_x |-> Pop(as_dict, "draggableX", None),
         draggable_y |-> Pop(as_dict, "draggableY", None),
         drag_handle |-> Pop(as_dict, "dragHandle", None),
         drag_max_x |-> Pop(as_dict, "dragMaxX", None),
         drag_max_y |-> Pop(as_dict, "dragMaxY", None),
         drag_min_x |-> Pop(as_dict, "dragMinX", None),
         drag_min_y |-> Pop(as_dict, "dragMinY", None),
         drag_precision_x |-> Pop(as_dict, "dragPrecisionX", None),
         drag_precision_y |-> Pop(as_dict, "dragPrecisionY", None),
         drag_sensitivity |-> Pop(as_dict, "dragSensitivity", PNum(2)),
         group_by |-> Pop(as_dict, "groupBy", None),
         guide_box |-> Pop(as_dict, "guideBox", None),
         live_redraw |-> Pop(as_dict, "liveRedraw", PBool(TRUE))], parsed)

\* DragDropOptions.to_dict()
DragDropOptions_to_dict(obj) ==
    trim_dict([draggableX |-> obj._draggable_x,
               draggableY |-> obj._draggable_y,
               dragHandle |-> IF obj._drag_handle = None THEN None
                          ELSE Nested(obj._drag_handle, DragHandle_to_dict(obj._drag_handle)),
               dragMaxX |-> obj._drag_max_x,
               dragMaxY |-> obj._drag_max_y,
               dragMinX |-> obj._drag_min_x,
               dragMinY |-> obj._drag_min_y,
               dragPrecisionX |-> obj._drag_precision_x,
               dragPrecisionY |-> obj._drag_precision_y,
               dragSensitivity |-> obj._drag_sensitivity,
               groupBy |-> obj._group_by,
               guideBox |-> IF obj._guide_box = None THEN None
                        ELSE Nested(obj._guide_box, GuideBox_to_dict(obj._guide_box)),
               liveRedraw |-> obj._live_redraw])

(***************************************************************************)
(* BoxPlotDragDropOptions and BulletDragDropOptions                        *)
(***************************************************************************)
\* super(self): super() takes a type first, and self is an instance
super_of_self == Raise("TypeError")

\* the statement super(self).__init__(**kwargs) in a body that reached it with s
super_init(s, kwargs, parsed) ==
    IF IsRaise(s) THEN s
    ELSE IF IsRaise(super_of_self) THEN super_of_self
    ELSE DragDropOptions_init_body(s, kwargs, parsed)

\* the value BoxPlotDragDropOptions.draggable_high (_low, _q1, _q3) stores
BoxPlotDragDropOptions_draggable(value) == OptionalBool(value)

\* BoxPlotDragDropOptions(**kwargs)
BoxPlotDragDropOptions_init(kwargs, parsed) ==
    LET s0 == [t |-> "BoxPlotDragDropOptions", _draggable_high |-> None, _draggable_low |-> None,
               _draggable_q1 |-> None, _draggable_q3 |-> None]
        s1 == Assign(s0, "_draggable_high", BoxPlotDragDropOptions_draggable(Pop(kwargs, "draggable_high", PBool(TRUE))))
        s2 == Assign(s1, "_draggable_low", BoxPlotDragDropOptions_draggable(Pop(kwargs, "draggable_low", PBool(TRUE))))
        s3 == Assign(s2, "_draggable_q1", BoxPlotDragDropOptions_draggable(Pop(kwargs, "draggable_q1", PBool(TRUE))))
        s4 == Assign(s3, "_draggable_q3", BoxPlotDragDropOptions_draggable(Pop(kwargs, "draggable_q3", PBool(TRUE))))
    IN  super_init(s4, kwargs, parsed)

\* BoxPlotDragDropOptions.from_dict(as_dict)
BoxPlotDragDropOptions_from_dict(as_dict, parsed) ==
    BoxPlotDragDropOptions_init(
        [draggable_x |-> Pop(as_dict, "draggableX", None),
         draggable_y |-> Pop(as_dict, "draggableY", None),
         drag_handle |-> Pop(as_dict, "dragHandle", None),
         drag_max_x |-> Pop(as_dict, "dragMaxX", None),
         drag_max_y |-> Pop(as_dict, "dragMaxY", None),
         drag_min_x |-> Pop(as_dict, "dragMinX", None),
         drag_min_y |-> Pop(as_dict, "dragMinY", None),
         drag_precision_x |-> Pop(as_dict, "dragPrecisionX", None),
         drag_precision_y |-> Pop(as_dict, "dragPrecisionY", None),
         drag_sensitivity |-> Pop(as_dict, "dragSensitivity", PNum(2)),
         group_by |-> Pop(as_dict, "groupBy", None),
         guide_box |-> Pop(as_dict, "guideBox", None),
         live_redraw |-> Pop(as_dict, "liveRedraw", PBool(TRUE)),
         draggable_high |-> Pop(as_dict, "draggableHigh", PBool(TRUE)),
         draggable_low |-> Pop(as_dict, "draggableLow", PBool(TRUE)),
         draggable_q1 |-> Pop(as_dict, "draggableQ1", PBool(TRUE)),
         draggable_q3 |-> Pop(as_dict, "draggableQ3", PBool(TRUE))], parsed)

\* the value BulletDragDropOptions.draggable_target stores
BulletDragDropOptions_draggable_target(value) == OptionalBool(value)

\* BulletDragDropOptions(**kwargs)
BulletDragDropOptions_init(kwargs, parsed) ==
    LET s0 == [t |-> "BulletDragDropOptions", _draggable_target |-> None]
        s1 == Assign(s0, "_draggable_target",
                     BulletDragDropOptions_draggable_target(Pop(kwargs, "draggable_target", PBool(TRUE))))
    IN  super_init(s1, kwargs, parsed)

\* BulletDragDropOptions.from_dict(as_dict)
BulletDragDropOptions_from_dict(as_dict, parsed) ==
    BulletDragDropOptions_init(
        [draggable_x |-> Pop(as_dict, "draggableX", None),
         draggable_y |-> Pop(as_dict, "draggableY", None),
         drag_handle |-> Pop(as_dict, "dragHandle", None),
         drag_max_x |-> Pop(as_dict, "dragMaxX", None),
         drag_max_y |-> Pop(as_dict, "dragMaxY", None),
         drag_min_x |-> Pop(as_dict, "dragMinX", None),
         drag_min_y |-> Pop(as_dict, "dragMinY", None),
         drag_precision_x |-> Pop(as_dict, "dragPrecisionX", None),
         drag_precision_y |-> Pop(as_dict, "dragPrecisionY", None),
         drag_sensitivity |-> Pop(as_dict, "dragSensitivity", PNum(2)),
         group_by |-> Pop(as_dict, "groupBy", None),
         guide_box |-> Pop(as_dict, "guideBox", None),
         live_redraw |-> Pop(as_dict, "liveRedraw", PBool(TRUE)),
         draggable_target |-> Pop(as_dict, "draggableTarget", PBool(TRUE))], parsed)

(***************************************************************************)
(* AccessibilityLanguageOptions                                            *)
(***************************************************************************)
\* constants.DEFAULT_LANG_ACCESSIBILITY_*: the defaults of the charting library
DEFAULT_LANG_ACCESSIBILITY_CHART_CONTAINER_LABEL == "{title}. Highcharts interactive chart."
DEFAULT_LANG_ACCESSIBILITY_CREDITS == "Chart credits: {creditsStr}"
DEFAULT_LANG_ACCESSIBILITY_DEFAULT_CHART_TITLE == "Chart"
DEFAULT_LANG_ACCESSIBILITY_DRILLUP_BUTTON == "{buttonText}"
DEFAULT_LANG_ACCESSIBILITY_GRAPHIC_CONTAINER_LABEL == ""
DEFAULT_LANG_ACCESSIBILITY_SVG_CONTAINER_LABEL == "Interactive chart"
DEFAULT_LANG_ACCESSIBILITY_SVG_CONTAINER_TITLE == ""
DEFAULT_LANG_ACCESSIBILITY_THOUSANDSSEP == ","

\* the value AccessibilityLanguageOptions.chart_container_label stores
AccessibilityLanguageOptions_chart_container_label(value) ==
    LET s == validators_string(value, TRUE)
    IN  IF IsRaise(s) THEN s
        ELSE IF Falsy(s) THEN PStr(DEFAULT_LANG_ACCESSIBILITY_CHART_CONTAINER_LABEL) ELSE s

\* the value AccessibilityLanguageOptions.credits stores
AccessibilityLanguageOptions_credits(value) ==
    LET s == validators_string(value, TRUE)
    IN  IF IsRaise(s) THEN s
        ELSE IF Falsy(s) THEN PStr(DEFAULT_LANG_ACCESSIBILITY_CREDITS) ELSE s

\* the value AccessibilityLanguageOptions.default_chart_title stores
AccessibilityLanguageOptions_default_chart_title(value) ==
    LET s == validators_string(value, TRUE)
    IN  IF IsRaise(s) THEN s
        ELSE IF Falsy(s) THEN PStr(DEFAULT_LANG_ACCESSIBILITY_DEFAULT_CHART_TITLE) ELSE s

\* a drillup_button setter without the fall-back to the default constant
AccessibilityLanguageOptions_drillup_button_plain(value) == validators_string(value, TRUE)

\* the value AccessibilityLanguageOptions.drillup_button stores
AccessibilityLanguageOptions_drillup_button(value) ==
    LET s == validators_string(value, TRUE)
    IN  IF IsRaise(s) THEN s
        ELSE IF Falsy(s) THEN PStr(DEFAULT_LANG_ACCESSIBILITY_DRILLUP_BUTTON) ELSE s

\* the value AccessibilityLanguageOptions.graphic_container_label stores
AccessibilityLanguageOptions_graphic_container_label(value) ==
    LET s == validators_string(value, TRUE)
    IN  IF IsRaise(s) THEN s
        ELSE IF Falsy(s) THEN PStr(DEFAULT_LANG_ACCESSIBILITY_GRAPHIC_CONTAINER_LABEL) ELSE s

\* the value AccessibilityLanguageOptions.svg_container_label stores
AccessibilityLanguageOptions_svg_container_label(value) ==
    LET s == validators_string(value, TRUE)
    IN  IF IsRaise(s) THEN s
        ELSE IF Falsy(s) THEN PStr(DEFAULT_LANG_ACCESSIBILITY_SVG_CONTAINER_LABEL) ELSE s

\* the value AccessibilityLanguageOptions.svg_container_title stores
AccessibilityLanguageOptions_svg_container_title(value) ==
    LET s == validators_string(value, TRUE)
    IN  IF IsRaise(s) THEN s
        ELSE IF Falsy(s) THEN PStr(DEFAULT_LANG_ACCESSIBILITY_SVG_CONTAINER_TITLE) ELSE s

\* the value a @class_sensitive(cls) property of AccessibilityLanguageOptions stores
\* (announce_new_data, axis, ..., zoom); cls.from_dict gives an instance of cls
AccessibilityLanguageOptions_nested(value, cls) == class_sensitive(value, cls, [t |-> cls])

\* a nested language-options object inside trim_dict
AccessibilityLanguageOptions_nested_to_dict(value) == Nested(value, EmptyDict)

\* the value AccessibilityLanguageOptions.thousands_separator stores
AccessibilityLanguageOptions_thousands_separator(value) ==
    IF Falsy(value) THEN EnforcedNull ELSE validators_string(value, TRUE)

AccessibilityLanguageOptions_fields ==
    [t |-> "AccessibilityLanguageOptions",
     _announce_new_data |-> None,
     _axis |-> None,
     _chart_container_label |-> None,
     _chart_types |-> None,
     _credits |-> None,
     _default_chart_title |-> None,
     _drillup_button |-> None,
     _exporting |-> None,
     _graphic_container_label |-> None,
     _legend |-> None,
     _range_selector |-> None,
     _screen_reader_section |-> None,
     _series |-> None,
     _series_type_descriptions |-> None,
     _sonification |-> None,
     _svg_container_label |-> None,
     _svg_container_title |-> None,
     _table |-> None,
     _thousands_separator |-> None,
     _zoom |-> None]

\* AccessibilityLanguageOptions(**kwargs)
AccessibilityLanguageOptions_init(kwargs) ==
    LET s0 == AccessibilityLanguageOptions_fields
        s1 == Assign(s0, "_announce_new_data", AccessibilityLanguageOptions_nested(Pop(kwargs, "announce_new_data", None), "AnnounceNewDataLanguageOptions"))
        s2 == Assign(s1, "_axis", AccessibilityLanguageOptions_nested(Pop(kwargs, "axis", None), "AxisLanguageOptions"))
        s3 == Assign(s2, "_chart_container_label", AccessibilityLanguageOptions_chart_container_label(
                  Pop(kwargs, "chart_container_label", PStr(DEFAULT_LANG_ACCESSIBILITY_CHART_CONTAINER_LABEL))))
        s4 == Assign(s3, "_chart_types", AccessibilityLanguageOptions_nested(Pop(kwargs, "chart_types", None), "ChartTypesLanguageOptions"))
        s5 == Assign(s4, "_credits", AccessibilityLanguageOptions_credits(
                  Pop(kwargs, "credits", PStr(DEFAULT_LANG_ACCESSIBILITY_CREDITS))))
        s6 == Assign(s5, "_default_chart_title", AccessibilityLanguageOptions_default_chart_title(
                  Pop(kwargs, "default_chart_title", PStr(DEFAULT_LANG_ACCESSIBILITY_DEFAULT_CHART_TITLE))))
        s7 == Assign(s6, "_drillup_button", AccessibilityLanguageOptions_drillup_button(
                  Pop(kwargs, "drillup_button", PStr(DEFAULT_LANG_ACCESSIBILITY_DRILLUP_BUTTON))))
        s8 == Assign(s7, "_exporting", AccessibilityLanguageOptions_nested(Pop(kwargs, "exporting", None), "ExportingLanguageOptions"))
        s9 == Assign(s8, "_graphic_container_label", AccessibilityLanguageOptions_graphic_container_label(
                  Pop(kwargs, "graphic_container_label", PStr(DEFAULT_LANG_ACCESSIBILITY_GRAPHIC_CONTAINER_LABEL))))
        s10 == Assign(s9, "_legend", AccessibilityLanguageOptions_nested(Pop(kwargs, "legend", None), "LegendLanguageOptions"))
        s11 == Assign(s10, "_range_selector", AccessibilityLanguageOptions_nested(Pop(kwargs, "range_selector", None), "RangeSelectorLanguageOptions"))
        s12 == Assign(s11, "_screen_reader_section", AccessibilityLanguageOptions_nested(Pop(kwargs, "screen_reader_section", None), "ScreenReaderSectionLanguageOptions"))
        s13 == Assign(s12, "_series", AccessibilityLanguageOptions_nested(Pop(kwargs, "series", None), "SeriesLanguageOptions"))
        s14 == Assign(s13, "series_type_description", Pop(kwargs, "series_type_description", None))
        s15 == Assign(s14, "_sonification", AccessibilityLanguageOptions_nested(Pop(kwargs, "sonification", None), "SonificationLanguageOptions"))
        s16 == Assign(s15, "_svg_container_label", AccessibilityLanguageOptions_svg_container_label(
                  Pop(kwargs, "svg_container_label", PStr(DEFAULT_LANG_ACCESSIBILITY_SVG_CONTAINER_LABEL))))
        s17 == Assign(s16, "_svg_container_title", AccessibilityLanguageOptions_svg_container_title(
                  Pop(kwargs, "svg_container_title", PStr(DEFAULT_LANG_ACCESSIBILITY_SVG_CONTAINER_TITLE))))
        s18 == Assign(s17, "_table", AccessibilityLanguageOptions_nested(Pop(kwargs, "table", None), "TableLanguageOptions"))
        s19 == Assign(s18, "_thousands_separator", AccessibilityLanguageOptions_thousands_separator(
                  Pop(kwargs, "thousands_separator", PStr(DEFAULT_LANG_ACCESSIBILITY_THOUSANDSSEP))))
    IN  Assign(s19, "_zoom", AccessibilityLanguageOptions_nested(Pop(kwargs, "zoom", None), "ZoomLanguageOptions"))

\* AccessibilityLanguageOptions.from_dict(as_dict)
AccessibilityLanguageOptions_from_dict(as_dict) ==
    AccessibilityLanguageOptions_init(
        [announce_new_data |-> Pop(as_dict, "announceNewData", None),
         axis |-> Pop(as_dict, "axis", None),
         chart_container_label |-> Pop(as_dict, "chartContainerLabel", PStr(DEFAULT_LANG_ACCESSIBILITY_CHART_CONTAINER_LABEL)),
         chart_types |-> Pop(as_dict, "chartTypes", None),
         credits |-> Pop(as_dict, "credits", PStr(DEFAULT_LANG_ACCESSIBILITY_CREDITS)),
         default_chart_title |-> Pop(as_dict, "defaultChartTitle", PStr(DEFAULT_LANG_ACCESSIBILITY_DEFAULT_CHART_TITLE)),
         drillup_button |-> Pop(as_dict, "drillUpButton", PStr(DEFAULT_LANG_ACCESSIBILITY_DRILLUP_BUTTON)),
         exporting |-> Pop(as_dict, "exporting", None),
         graphic_container_label |-> Pop(as_dict, "graphicContainerLabel", PStr(DEFAULT_LANG_ACCESSIBILITY_GRAPHIC_CONTAINER_LABEL)),
         legend |-> Pop(as_dict, "legend", None),
         range_selector |-> Pop(as_dict, "rangeSelector", None),
         screen_reader_section |-> Pop(as_dict, "screenReaderSection", None),
         series |-> Pop(as_dict, "series", None),
         series_type_description |-> Pop(as_dict, "seriesTypeDescription", None),
         sonification |-> Pop(as_dict, "sonification", None),
         svg_container_label |-> Pop(as_dict, "svgContainerLabel", PStr(DEFAULT_LANG_ACCESSIBILITY_SVG_CONTAINER_LABEL)),
         svg_container_title |-> Pop(as_dict, "svgContainerTitle", PStr(DEFAULT_LANG_ACCESSIBILITY_SVG_CONTAINER_TITLE)),
         table |-> Pop(as_dict, "table", None),
         thousands_separator |-> Pop(as_dict, "thousandsSep", PStr(DEFAULT_LANG_ACCESSIBILITY_THOUSANDSSEP)),
         zoom |-> Pop(as_dict, "zoom", None)])

\* AccessibilityLanguageOptions.to_dict()
AccessibilityLanguageOptions_to_dict(obj) ==
    trim_dict([announceNewData |-> AccessibilityLanguageOptions_nested_to_dict(obj._announce_new_data),
               axis |-> AccessibilityLanguageOptions_nested_to_dict(obj._axis),
               chartContainerLabel |-> obj._chart_container_label,
               chartTypes |-> AccessibilityLanguageOptions_nested_to_dict(obj._chart_types),
               credits |-> obj._credits,
               defaultChartTitle |-> obj._default_chart_title,
               drillupButton |-> obj._drillup_button,
               exporting |-> AccessibilityLanguageOptions_nested_to_dict(obj._exporting),
               graphicContainerLabel |-> obj._graphic_container_label,
               legend |-> AccessibilityLanguageOptions_nested_to_dict(obj._legend),
               rangeSelector |-> AccessibilityLanguageOptions_nested_to_dict(obj._range_selector),
               screenReaderSection |-> AccessibilityLanguageOptions_nested_to_dict(obj._screen_reader_section),
               series |-> AccessibilityLanguageOptions_nested_to_dict(obj._series),
               seriesTypeDescription |-> obj.series_type_description,
               sonification |-> AccessibilityLanguageOptions_nested_to_dict(obj._sonification),
               svgContainerLabel |-> obj._svg_container_label,
               svgContainerTitle |-> obj._svg_container_title,
               table |-> AccessibilityLanguageOptions_nested_to_dict(obj._table),
               thousandsSep |-> obj._thousands_separator,
               zoom |-> AccessibilityLanguageOptions_nested_to_dict(obj._zoom)])

(***************************************************************************)
(* ParetoSeries                                                            *)
(***************************************************************************)
\* the exceptions of validator_collection and highcharts that are ValueErrors
\* (CannotCoerceError is a TypeError)
IsValueError(r) ==
    IsRaise(r) /\ r.exc \in {"EmptyValueError", "MinimumValueError", "NotAnIntegerError",
                             "HighchartsValueError"}

\* validators.integer(value), allow_empty = False, coerce_value = False; no sample
\* string is numeric
validators_integer(value) ==
    CASE value.t = "NoneType" -> Raise("EmptyValueError")
      [] value.t \in {"int", "bool"} -> value
      [] value.t = "str" -> Raise("CannotCoerceError")
      [] OTHER -> Raise("CannotCoerceError")

\* the value ParetoSeries.base_series stores
ParetoSeries_base_series(value) ==
    IF value = None THEN None
    ELSE LET s == validators_string(value, FALSE)
         IN  IF IsValueError(s) THEN validators_integer(value) ELSE s

\* the getter of ParetoSeries.data
ParetoSeries_data(obj) == None

\* a data setter that keeps the value, as the setter of an ordinary series does
ParetoSeries_data_setter_storing(obj, value) == SetAttr(obj, "_data", value)

\* the setter of ParetoSeries.data: the object after self.data = value
ParetoSeries_data_setter(obj, value) == obj

\* utility_functions.mro_init(self, kwargs): the initialisers of the parent classes
\* run on the remaining keyword arguments (data, id and name of SeriesBase here)
mro_init(obj, kwargs) ==
    LET s1 == IF IsRaise(obj) THEN obj ELSE ParetoSeries_data_setter(obj, Pop(kwargs, "data", None))
        s2 == Assign(s1, "_id", validators_string(Pop(kwargs, "id", None), TRUE))
    IN  Assign(s2, "_name", validators_string(Pop(kwargs, "name", None), TRUE))

\* ParetoSeries(**kwargs)
ParetoSeries_init(kwargs) ==
    mro_init(Assign([t |-> "ParetoSeries", _base_series |-> None], "_base_series",
                    ParetoSeries_base_series(Pop(kwargs, "base_series", None))), kwargs)

(***************************************************************************)
(* VennData                                                                *)
(***************************************************************************)
\* an iterator (a generator, iter(...)): iterable, and truthy whatever it yields
PIter(seq) == [t |-> "iterator", v |-> seq]

\* checkers.is_iterable(value): str and bytes are forbidden literals
checkers_is_iterable(value) == value.t \in {"list", "iterator", "dict"}

\* checkers.is_type(value, cls)
checkers_is_type(value, cls) == value.t = cls

\* checkers.is_dict(value)
checkers_is_dict(value) == value.t = "dict"

\* the items `for x in value` visits: the elements of a list or an iterator, the
\* keys of a dict (in some order: a dict value does not record insertion order)
Iterate(value) ==
    IF value.t = "dict"
    THEN LET keys == CHOOSE q \in [1..Cardinality(DOMAIN value.v) -> DOMAIN value.v] :
                        \A k \in DOMAIN value.v : \E i \in DOMAIN q : q[i] = k
         IN  [i \in DOMAIN keys |-> PStr(keys[i])]
    ELSE value.v

\* a list built item by item from rs, the outcomes of the items in order: the first
\* exception ends the loop, otherwise the list of all items
Collect(rs) ==
    IF \E i \in DOMAIN rs : IsRaise(rs[i])
    THEN rs[CHOOSE i \in DOMAIN rs : IsRaise(rs[i]) /\ \A j \in 1..(i - 1) : ~IsRaise(rs[j])]
    ELSE PList(rs)

\* a DataLabel instance, DataLabel.from_dict and DataLabel.to_dict
DataLabelObj == [t |-> "DataLabel"]
DataLabel_from_dict(as_dict) == DataLabelObj
DataLabel_to_dict(obj) == EmptyDict

\* the value VennData.data_labels stores
VennData_data_labels(value) ==
    class_sensitive(value, "DataLabel",
                    IF value.t = "dict" THEN DataLabel_from_dict(value.v) ELSE None)

\* the value VennData.drag_drop stores
VennData_drag_drop(value, parsed) ==
    class_sensitive(value, "DragDropOptions",
                    IF value.t = "dict" THEN DragDropOptions_from_dict(value.v, parsed) ELSE None)

\* the value VennData.drilldown stores
VennData_drilldown(value) == validators_string(value, TRUE)

\* the value VennData.sets stores
VennData_sets(value) ==
    IF Falsy(value) THEN None
    ELSE IF checkers_is_iterable(value)
         THEN LET items == Iterate(value)
              IN  Collect([i \in DOMAIN items |-> validators_string(items[i], FALSE)])
         ELSE Collect([i \in {1} |-> validators_string(value, FALSE)])

\* the value VennData.value stores
VennData_value(value_) == validators_numeric(value_, FALSE, 0)

\* DataBase.__init__(**kwargs) run on the object s: the properties every data point
\* has, read from the keyword arguments with kwargs.get
DataBase_init(s, kwargs) ==
    LET s1  == Assign(s, "_accessibility", Pop(kwargs, "accessibility", None))
        s2  == Assign(s1, "_class_name", validators_string(Pop(kwargs, "class_name", None), TRUE))
        s3  == Assign(s2, "_color", Pop(kwargs, "color", None))
        s4  == Assign(s3, "_color_index", validators_numeric(Pop(kwargs, "color_index", None), FALSE, 0))
        s5  == Assign(s4, "_custom", Pop(kwargs, "custom", None))
        s6  == Assign(s5, "_description", validators_string(Pop(kwargs, "description", None), TRUE))
        s7  == Assign(s6, "_events", Pop(kwargs, "events", None))
        s8  == Assign(s7, "_id", validators_string(Pop(kwargs, "id", None), TRUE))
        s9  == Assign(s8, "_label_rank", validators_numeric(Pop(kwargs, "label_rank", None), FALSE, 0))
        s10 == Assign(s9, "_name", validators_string(Pop(kwargs, "name", None), TRUE))
    IN  Assign(s10, "_selected", OptionalBool(Pop(kwargs, "selected", None)))

\* VennData(**kwargs)
VennData_init(kwargs, parsed) ==
    DataBase_init(
        AssignAll(
            [t |-> "VennData", _data_labels |-> None, _drag_drop |-> None,
             _drilldown |-> None, _sets |-> None, _value |-> None],
            <<
                <<"_data_labels", VennData_data_labels(Pop(kwargs, "data_labels", None))>>,
                <<"_drag_drop", VennData_drag_drop(Pop(kwargs, "drag_drop", None), parsed)>>,
                <<"_drilldown", VennData_drilldown(Pop(kwargs, "drilldown", None))>>,
                <<"_sets", VennData_sets(Pop(kwargs, "sets", None))>>,
                <<"_value", VennData_value(Pop(kwargs, "value", None))>>
            >>),
        kwargs)

\* the keys VennData._get_kwargs_from_dict reads: keyword argument |-> key of as_dict
VennData_kwargs_keys ==
    [accessibility |-> "accessibility", class_name |-> "className", color |-> "color",
     color_index |-> "colorIndex", custom |-> "custom", description |-> "description",
     events |-> "events", id |-> "id", label_rank |-> "labelrank", name |-> "name",
     selected |-> "selected", data_labels |-> "dataLabels", drag_drop |-> "dragDrop",
     drilldown |-> "drilldown", sets |-> "sets", value |-> "value"]

\* VennData._get_kwargs_from_dict(as_dict)
VennData_get_kwargs_from_dict(as_dict) ==
    [k \in DOMAIN VennData_kwargs_keys |-> Pop(as_dict, VennData_kwargs_keys[k], None)]

\* the keys VennData._to_untrimmed_dict writes: key |-> the property written under it
VennData_untrimmed_keys ==
    [dataLabels |-> "data_labels", dragDrop |-> "drag_drop", drilldown |-> "drilldown",
     sets |-> "sets", value |-> "value", accessibility |-> "accessibility",
     className |-> "class_name", color |-> "color", colorIndex |-> "color_index",
     custom |-> "custom", description |-> "description", events |-> "events", id |-> "id",
     labelrank |-> "label_rank", name |-> "name", selected |-> "selected"]

\* VennData._to_untrimmed_dict()
VennData_to_untrimmed_dict(obj) ==
    [k \in DOMAIN VennData_untrimmed_keys |-> obj["_" \o VennData_untrimmed_keys[k]]]

\* VennData.from_dict(as_dict), inherited: cls(**cls._get_kwargs_from_dict(as_dict))
VennData_from_dict(as_dict, parsed) ==
    VennData_init(VennData_get_kwargs_from_dict(as_dict), parsed)

\* VennData.to_dict(), inherited: trim_dict(self._to_untrimmed_dict()), the nested
\* option objects converted by their own to_dict
VennData_to_dict(obj) ==
    LET untrimmed == VennData_to_untrimmed_dict(obj)
    IN  trim_dict([k \in DOMAIN untrimmed |->
            CASE k = "dataLabels" /\ untrimmed[k] # None ->
                    Nested(untrimmed[k], DataLabel_to_dict(untrimmed[k]))
              [] k = "dragDrop" /\ untrimmed[k] # None ->
                    Nested(untrimmed[k], DragDropOptions_to_dict(untrimmed[k]))
              [] OTHER -> untrimmed[k]])

\* the body of the loop of from_array: what one item becomes
VennData_from_array_item(item, parsed) ==
    CASE checkers_is_type(item, "VennData") -> item
      [] checkers_is_dict(item) -> VennData_from_dict(item.v, parsed)
      [] item = None \/ item.t = "EnforcedNullType" -> VennData_init(EmptyDict, parsed)
      [] OTHER -> Raise("HighchartsValueError")

\* the items from_array visits
VennData_from_array_items(value) ==
    IF ~checkers_is_iterable(value) THEN <<value>> ELSE Iterate(value)

\* a from_array that leaves out the items it cannot convert instead of raising
VennData_from_array_skipping(value, parsed) ==
    IF Falsy(value) THEN PList(<<>>)
    ELSE PList(SelectSeq([i \in DOMAIN VennData_from_array_items(value) |->
                             VennData_from_array_item(VennData_from_array_items(value)[i], parsed)],
                         LAMBDA r : r # Raise("HighchartsValueError")))

\* VennData.from_array(value)
VennData_from_array(value, parsed) ==
    IF Falsy(value) THEN PList(<<>>)
    ELSE Collect([i \in DOMAIN VennData_from_array_items(value) |->
                     VennData_from_array_item(VennData_from_array_items(value)[i], parsed)])

(***************************************************************************)
(* Inputs                                                                  *)
(***************************************************************************)
MaxKwargs == 2

\* the mappings that give at most MaxKwargs of the keys of vals one of the key's
\* sample values (vals: a function from each key to its sample values)
Mappings(vals) ==
    UNION {{m \in [ks -> UNION {vals[k] : k \in ks}] : \A k \in ks : m[k] \in vals[k]} :
           ks \in {s \in SUBSET DOMAIN vals : Cardinality(s) <= MaxKwargs}}

ColorValues == {None, PStr(""), PStr("#fff"), PStr("red"), PStr(GradientJSON), GradientObj,
                PDict([linearGradient |-> None]), PNum(5)}
CursorValues == {None, PStr("move"), PStr("bogus")}
WidthValues == {None, PNum(0), PNum(3), PNum(-1)}
BoolValues == {None, PBool(TRUE), PBool(FALSE)}
NumValues == {None, PNum(0), PNum(7)}
LabelValues == {None, PStr(""), PStr("a"), PNum(0), PNum(5)}
SeparatorValues == {None, PStr(""), PStr(" "), PNum(0), EnforcedNull}
DataValues == {None, PList(<<PNum(1)>>), PStr("x"), PNum(3)}
BaseSeriesValues == {None, PStr(""), PStr("s1"), PNum(0), PNum(1), PList(<<PStr("s1")>>)}

\* a dict that DragHandle.from_dict and GuideBoxOptions.from_dict accept, and {}
PlainStyle == [color |-> None, lineColor |-> None]

DragHandleKwargs ==
    Mappings([color |-> ColorValues, line_color |-> ColorValues, cursor |-> CursorValues,
              line_width |-> WidthValues])
DragHandleDicts ==
    Mappings([color |-> ColorValues, lineColor |-> ColorValues, cursor |-> CursorValues,
              lineWidth |-> WidthValues])
GuideBoxValues == {None, PDict(EmptyDict), PDict(PlainStyle), PNum(5),
                   GuideBoxOptions_init([color |-> None, line_color |-> None], FALSE)}
GuideBoxDicts == {EmptyDict} \cup {[default |-> v] : v \in GuideBoxValues}

DragDropKwargValues ==
    [draggable_x |-> BoolValues, draggable_y |-> BoolValues,
     drag_handle |-> {None, PDict(EmptyDict), PDict(PlainStyle)},
     drag_max_x |-> NumValues, drag_max_y |-> NumValues,
     drag_min_x |-> NumValues, drag_min_y |-> NumValues,
     drag_precision_x |-> WidthValues, drag_precision_y |-> WidthValues,
     drag_sensitivity |-> WidthValues, group_by |-> {None, PStr("g")},
     guide_box |-> {None, PDict(EmptyDict), GuideBox_init(EmptyDict, FALSE)},
     live_redraw |-> BoolValues]
DragDropDictValues ==
    [draggableX |-> BoolValues, draggableY |-> BoolValues,
     dragHandle |-> {None, PDict(EmptyDict), PDict(PlainStyle), PDict([lineWidth |-> PNum(3)])},
     dragMaxX |-> NumValues, dragMaxY |-> NumValues,
     dragMinX |-> NumValues, dragMinY |-> NumValues,
     dragPrecisionX |-> WidthValues, dragPrecisionY |-> WidthValues,
     dragSensitivity |-> WidthValues, groupBy |-> {None, PStr("g")},
     guideBox |-> {None, PDict(EmptyDict), PDict([default |-> PDict(PlainStyle)])},
     liveRedraw |-> BoolValues]
IndividualKwargValues ==
    [draggable_high |-> BoolValues, draggable_low |-> BoolValues, draggable_q1 |-> BoolValues,
     draggable_q3 |-> BoolValues, draggable_target |-> BoolValues,
     draggable_x |-> BoolValues, drag_sensitivity |-> WidthValues, live_redraw |-> BoolValues]
IndividualDictValues ==
    [draggableHigh |-> BoolValues, draggableLow |-> BoolValues, draggableQ1 |-> BoolValues,
     draggableQ3 |-> BoolValues, draggableTarget |-> BoolValues,
     draggableX |-> BoolValues, dragSensitivity |-> WidthValues, liveRedraw |-> BoolValues]

LabelAttrs == {"chart_container_label", "credits", "default_chart_title", "drillup_button",
               "graphic_container_label", "svg_container_label", "svg_container_title"}
AccessibilityKwargValues ==
    [chart_container_label |-> LabelValues, credits |-> LabelValues,
     default_chart_title |-> LabelValues, drillup_button |-> LabelValues,
     graphic_container_label |-> LabelValues, svg_container_label |-> LabelValues,
     svg_container_title |-> LabelValues, thousands_separator |-> SeparatorValues]
AccessibilityDictValues ==
    [chartContainerLabel |-> LabelValues, credits |-> LabelValues,
     defaultChartTitle |-> LabelValues, drillUpButton |-> LabelValues,
     drillupButton |-> LabelValues,
     graphicContainerLabel |-> LabelValues, svgContainerLabel |-> LabelValues,
     svgContainerTitle |-> LabelValues, thousandsSep |-> SeparatorValues]

ParetoKwargValues ==
    [base_series |-> BaseSeriesValues, data |-> DataValues,
     id |-> {None, PStr("i")}, name |-> {None, PStr("n")}]

MaxItems == 2

\* the sequences of at most MaxItems items of S
Seqs(S) == UNION {[1..n -> S] : n \in 0..MaxItems}

\* a GuideBoxOptions, a GuideBox holding it and a DragDropOptions holding that
PlainGuideBoxOptions == GuideBoxOptions_init([color |-> None, line_color |-> None], FALSE)
PlainGuideBox == GuideBox_init([default |-> PlainGuideBoxOptions], FALSE)
GuidedDragDropOptions == DragDropOptions_init([guide_box |-> PlainGuideBox], FALSE)

SetsItemValues == {PStr("A"), PStr("B"), PStr("")}
SetsValues ==
    {None, PStr(""), PStr("A"), PNum(0), PNum(5), PList(<<PStr("A"), PNum(5)>>)}
        \cup {PList(q) : q \in Seqs(SetsItemValues)} \cup {PIter(q) : q \in Seqs({PStr("A")})}
DataLabelValues == {None, DataLabelObj, PDict(EmptyDict), PNum(5)}
DragDropValues == {None, PDict(EmptyDict), DragDropOptions_init(EmptyDict, FALSE),
                   GuidedDragDropOptions, PNum(5)}
DrilldownValues == {None, PStr("d"), PNum(5)}
ValueValues == {None, PNum(0), PNum(7), PStr("x")}

VennKwargValues ==
    [data_labels |-> DataLabelValues, drag_drop |-> DragDropValues,
     drilldown |-> DrilldownValues, sets |-> SetsValues, value |-> ValueValues,
     id |-> {None, PStr("i")}, label_rank |-> {None, PNum(1)}]
VennDictValues ==
    [dataLabels |-> DataLabelValues, dragDrop |-> DragDropValues,
     drilldown |-> DrilldownValues, sets |-> SetsValues, value |-> ValueValues,
     id |-> {None, PStr("i")}, labelrank |-> {None, PNum(1)}, labelRank |-> {None, PNum(1)}]

\* the items offered to VennData.from_array: a data point, dicts that from_dict
\* accepts, a dict that it rejects, nulls and values of other kinds
ArrayItemValues ==
    {None, EnforcedNull, VennData_init([sets |-> PStr("A"), value |-> PNum(7)], FALSE),
     PDict(EmptyDict), PDict([sets |-> PList(<<PStr("A"), PStr("B")>>), value |-> PNum(7)]),
     PDict([value |-> PStr("x")]), PNum(5), PStr("A")}

\* the values offered to VennData.from_array: the lists and the iterators of at most
\* MaxItems items, every item by itself, and falsy values
ArrayValues ==
    {PNum(0), PStr(""), PDict([sets |-> PStr("A")])}
        \cup UNION {{PList(q), PIter(q)} \cup {q[i] : i \in DOMAIN q} : q \in Seqs(ArrayItemValues)}

(***************************************************************************)
(* The state.  A behaviour is the life of one object: a constructor or     *)
(* from_dict call binds self to the instance it returns (None when it      *)
(* raises), and assignments and conversions follow.  call is the latest    *)
(* call and ret what it returned or raised.                                *)
(***************************************************************************)
Init ==
    /\ self = None
    /\ call = [name |-> "start"]
    /\ ret = None

\* what self is bound to after self = <constructor call> returned or raised r
Bound(r) == IF IsRaise(r) THEN None ELSE r

\* self after self.<attr> = value, where r is the object after the assignment or
\* what the setter raised
After(obj, r) == IF IsRaise(r) THEN obj ELSE r

\* what the statement self.<attr> = value returned or raised
Outcome(r) == IF IsRaise(r) THEN r ELSE None

NewDragHandle ==
    /\ call.name = "start"
    /\ \E kwargs \in DragHandleKwargs, parsed \in BOOLEAN :
        /\ call' = [name |-> "DragHandle", kwargs |-> kwargs]
        /\ ret' = DragHandle_init(kwargs, parsed)
        /\ self' = Bound(DragHandle_init(kwargs, parsed))

DragHandleFromDict ==
    /\ call.name = "start"
    /\ \E as_dict \in DragHandleDicts, parsed \in BOOLEAN :
        /\ call' = [name |-> "DragHandle.from_dict", as_dict |-> as_dict]
        /\ ret' = DragHandle_from_dict(as_dict, parsed)
        /\ self' = Bound(DragHandle_from_dict(as_dict, parsed))

NewGuideBoxOptions ==
    /\ call.name = "start"
    /\ \E kwargs \in DragHandleKwargs, parsed \in BOOLEAN :
        /\ call' = [name |-> "GuideBoxOptions", kwargs |-> kwargs]
        /\ ret' = GuideBoxOptions_init(kwargs, parsed)
        /\ self' = Bound(GuideBoxOptions_init(kwargs, parsed))

GuideBoxOptionsFromDict ==
    /\ call.name = "start"
    /\ \E as_dict \in DragHandleDicts, parsed \in BOOLEAN :
        /\ call' = [name |-> "GuideBoxOptions.from_dict", as_dict |-> as_dict]
        /\ ret' = GuideBoxOptions_from_dict(as_dict, parsed)
        /\ self' = Bound(GuideBoxOptions_from_dict(as_dict, parsed))

\* self.color = value
SetColor ==
    /\ self.t \in {"DragHandle", "GuideBoxOptions"}
    /\ \E value \in ColorValues, parsed \in BOOLEAN :
        LET r == Assign(self, "_color", IF self.t = "DragHandle" THEN DragHandle_color(value, parsed) ELSE GuideBoxOptions_color(value, parsed))
        IN  /\ call' = [name |-> "setattr", attr |-> "color", value |-> value, before |-> self]
            /\ ret' = Outcome(r)
            /\ self' = After(self, r)

\* self.line_color = value
SetLineColor ==
    /\ self.t \in {"DragHandle", "GuideBoxOptions"}
    /\ \E value \in ColorValues, parsed \in BOOLEAN :
        LET r == Assign(self, "_line_color", IF self.t = "DragHandle" THEN DragHandle_line_color(value, parsed) ELSE GuideBoxOptions_line_color(value, parsed))
        IN  /\ call' = [name |-> "setattr", attr |-> "line_color", value |-> value, before |-> self]
            /\ ret' = Outcome(r)
            /\ self' = After(self, r)

NewGuideBox ==
    /\ call.name = "start"
    /\ \E kwargs \in GuideBoxDicts, parsed \in BOOLEAN :
        /\ call' = [name |-> "GuideBox", kwargs |-> kwargs]
        /\ ret' = GuideBox_init(kwargs, parsed)
        /\ self' = Bound(GuideBox_init(kwargs, parsed))

GuideBoxFromDict ==
    /\ call.name = "start"
    /\ \E as_dict \in GuideBoxDicts, parsed \in BOOLEAN :
        /\ call' = [name |-> "GuideBox.from_dict", as_dict |-> as_dict]
        /\ ret' = GuideBox_from_dict(as_dict, parsed)
        /\ self' = Bound(GuideBox_from_dict(as_dict, parsed))

GuideBoxRoundTrip ==
    /\ self.t = "GuideBox"
    /\ \E parsed \in BOOLEAN :
        /\ call' = [name |-> "roundtrip"]
        /\ ret' = GuideBox_from_dict(GuideBox_to_dict(self), parsed)
        /\ UNCHANGED self

NewDragDropOptions ==
    /\ call.name = "start"
    /\ \E kwargs \in Mappings(DragDropKwargValues), parsed \in BOOLEAN :
        /\ call' = [name |-> "DragDropOptions", kwargs |-> kwargs]
        /\ ret' = DragDropOptions_init(kwargs, parsed)
        /\ self' = Bound(DragDropOptions_init(kwargs, parsed))

DragDropOptionsFromDict ==
    /\ call.name = "start"
    /\ \E as_dict \in Mappings(DragDropDictValues), parsed \in BOOLEAN :
        /\ call' = [name |-> "DragDropOptions.from_dict", as_dict |-> as_dict]
        /\ ret' = DragDropOptions_from_dict(as_dict, parsed)
        /\ self' = Bound(DragDropOptions_from_dict(as_dict, parsed))

DragDropOptionsRoundTrip ==
    /\ self.t = "DragDropOptions"
    /\ \E parsed \in BOOLEAN :
        /\ call' = [name |-> "roundtrip"]
        /\ ret' = DragDropOptions_from_dict(DragDropOptions_to_dict(self), parsed)
        /\ UNCHANGED self

NewBoxPlotDragDropOptions ==
    /\ call.name = "start"
    /\ \E kwargs \in Mappings(IndividualKwargValues), parsed \in BOOLEAN :
        /\ call' = [name |-> "BoxPlotDragDropOptions", kwargs |-> kwargs]
        /\ ret' = BoxPlotDragDropOptions_init(kwargs, parsed)
        /\ self' = Bound(BoxPlotDragDropOptions_init(kwargs, parsed))

BoxPlotDragDropOptionsFromDict ==
    /\ call.name = "start"
    /\ \E as_dict \in Mappings(IndividualDictValues), parsed \in BOOLEAN :
        /\ call' = [name |-> "BoxPlotDragDropOptions.from_dict", as_dict |-> as_dict]
        /\ ret' = BoxPlotDragDropOptions_from_dict(as_dict, parsed)
        /\ self' = Bound(BoxPlotDragDropOptions_from_dict(as_dict, parsed))

NewBulletDragDropOptions ==
    /\ call.name = "start"
    /\ \E kwargs \in Mappings(IndividualKwargValues), parsed \in BOOLEAN :
        /\ call' = [name |-> "BulletDragDropOptions", kwargs |-> kwargs]
        /\ ret' = BulletDragDropOptions_init(kwargs, parsed)
        /\ self' = Bound(BulletDragDropOptions_init(kwargs, parsed))

BulletDragDropOptionsFromDict ==
    /\ call.name = "start"
    /\ \E as_dict \in Mappings(IndividualDictValues), parsed \in BOOLEAN :
        /\ call' = [name |-> "BulletDragDropOptions.from_dict", as_dict |-> as_dict]
        /\ ret' = BulletDragDropOptions_from_dict(as_dict, parsed)
        /\ self' = Bound(BulletDragDropOptions_from_dict(as_dict, parsed))

NewAccessibilityLanguageOptions ==
    /\ call.name = "start"
    /\ \E kwargs \in Mappings(AccessibilityKwargValues) :
        /\ call' = [name |-> "AccessibilityLanguageOptions", kwargs |-> kwargs]
        /\ ret' = AccessibilityLanguageOptions_init(kwargs)
        /\ self' = Bound(AccessibilityLanguageOptions_init(kwargs))

AccessibilityLanguageOptionsFromDict ==
    /\ call.name = "start"
    /\ \E as_dict \in Mappings(AccessibilityDictValues) :
        /\ call' = [name |-> "AccessibilityLanguageOptions.from_dict", as_dict |-> as_dict]
        /\ ret' = AccessibilityLanguageOptions_from_dict(as_dict)
        /\ self' = Bound(AccessibilityLanguageOptions_from_dict(as_dict))

\* the value the setter of the label property attr stores
LabelSetter(attr, value) ==
    CASE attr = "chart_container_label" -> AccessibilityLanguageOptions_chart_container_label(value)
      [] attr = "credits" -> AccessibilityLanguageOptions_credits(value)
      [] attr = "default_chart_title" -> AccessibilityLanguageOptions_default_chart_title(value)
      [] attr = "drillup_button" -> AccessibilityLanguageOptions_drillup_button(value)
      [] attr = "graphic_container_label" -> AccessibilityLanguageOptions_graphic_container_label(value)
      [] attr = "svg_container_label" -> AccessibilityLanguageOptions_svg_container_label(value)
      [] attr = "svg_container_title" -> AccessibilityLanguageOptions_svg_container_title(value)

\* self.<label> = value
SetLabel ==
    /\ self.t = "AccessibilityLanguageOptions"
    /\ \E attr \in LabelAttrs, value \in LabelValues :
        LET r == Assign(self, "_" \o attr, LabelSetter(attr, value))
        IN  /\ call' = [name |-> "setattr", attr |-> attr, value |-> value, before |-> self]
            /\ ret' = Outcome(r)
            /\ self' = After(self, r)

\* self.thousands_separator = value
SetThousandsSeparator ==
    /\ self.t = "AccessibilityLanguageOptions"
    /\ \E value \in SeparatorValues :
        LET r == Assign(self, "_thousands_separator", AccessibilityLanguageOptions_thousands_separator(value))
        IN  /\ call' = [name |-> "setattr", attr |-> "thousands_separator", value |-> value, before |-> self]
            /\ ret' = Outcome(r)
            /\ self' = After(self, r)

AccessibilityLanguageOptionsRoundTrip ==
    /\ self.t = "AccessibilityLanguageOptions"
    /\ call' = [name |-> "roundtrip"]
    /\ ret' = AccessibilityLanguageOptions_from_dict(AccessibilityLanguageOptions_to_dict(self))
    /\ UNCHANGED self

NewParetoSeries ==
    /\ call.name = "start"
    /\ \E kwargs \in Mappings(ParetoKwargValues) :
        /\ call' = [name |-> "ParetoSeries", kwargs |-> kwargs]
        /\ ret' = ParetoSeries_init(kwargs)
        /\ self' = Bound(ParetoSeries_init(kwargs))

\* self.data = value
SetData ==
    /\ self.t = "ParetoSeries"
    /\ \E value \in DataValues :
        LET r == ParetoSeries_data_setter(self, value)
        IN  /\ call' = [name |-> "setattr", attr |-> "data", value |-> value, before |-> self]
            /\ ret' = Outcome(r)
            /\ self' = After(self, r)

\* self.base_series = value
SetBaseSeries ==
    /\ self.t = "ParetoSeries"
    /\ \E value \in BaseSeriesValues :
        LET r == Assign(self, "_base_series", ParetoSeries_base_series(value))
        IN  /\ call' = [name |-> "setattr", attr |-> "base_series", value |-> value, before |-> self]
            /\ ret' = Outcome(r)
            /\ self' = After(self, r)

NewVennData ==
    /\ call.name = "start"
    /\ \E kwargs \in Mappings(VennKwargValues), parsed \in BOOLEAN :
        /\ call' = [name |-> "VennData", kwargs |-> kwargs]
        /\ ret' = VennData_init(kwargs, parsed)
        /\ self' = Bound(VennData_init(kwargs, parsed))

VennDataFromDict ==
    /\ call.name = "start"
    /\ \E as_dict \in Mappings(VennDictValues), parsed \in BOOLEAN :
        /\ call' = [name |-> "VennData.from_dict", as_dict |-> as_dict]
        /\ ret' = VennData_from_dict(as_dict, parsed)
        /\ self' = Bound(VennData_from_dict(as_dict, parsed))

\* VennData.from_array(value), a class method: no object is bound
VennDataFromArray ==
    /\ call.name = "start"
    /\ \E value \in ArrayValues, parsed \in BOOLEAN :
        /\ call' = [name |-> "VennData.from_array", value |-> value, parsed |-> parsed]
        /\ ret' = VennData_from_array(value, parsed)
        /\ UNCHANGED self

\* self.sets = value
SetSets ==
    /\ self.t = "VennData"
    /\ \E value \in SetsValues :
        LET r == Assign(self, "_sets", VennData_sets(value))
        IN  /\ call' = [name |-> "setattr", attr |-> "sets", value |-> value, before |-> self]
            /\ ret' = Outcome(r)
            /\ self' = After(self, r)

VennDataRoundTrip ==
    /\ self.t = "VennData"
    /\ \E parsed \in BOOLEAN :
        /\ call' = [name |-> "roundtrip"]
        /\ ret' = VennData_from_dict(VennData_to_dict(self), parsed)
        /\ UNCHANGED self

Next ==
    \/ NewDragHandle
    \/ DragHandleFromDict
    \/ NewGuideBoxOptions
    \/ GuideBoxOptionsFromDict
    \/ SetColor
    \/ SetLineColor
    \/ NewGuideBox
    \/ GuideBoxFromDict
    \/ GuideBoxRoundTrip
    \/ NewDragDropOptions
    \/ DragDropOptionsFromDict
    \/ DragDropOptionsRoundTrip
    \/ NewBoxPlotDragDropOptions
    \/ BoxPlotDragDropOptionsFromDict
    \/ NewBulletDragDropOptions
    \/ BulletDragDropOptionsFromDict
    \/ NewAccessibilityLanguageOptions
    \/ AccessibilityLanguageOptionsFromDict
    \/ SetLabel
    \/ SetThousandsSeparator
    \/ AccessibilityLanguageOptionsRoundTrip
    \/ NewParetoSeries
    \/ SetData
    \/ SetBaseSeries
    \/ NewVennData
    \/ VennDataFromDict
    \/ VennDataFromArray
    \/ SetSets
    \/ VennDataRoundTrip

Spec == Init /\ [][Next]_vars

(***************************************************************************)
(* Properties                                                              *)
(***************************************************************************)
IsPlainColour(value) ==
    /\ value.t = "str"
    /\ value.v # ""
    /\ ~Contains("linearGradient", value)
    /\ ~Contains("patternOptions", value)

IsNonEmptyStr(value) == value.t = "str" /\ value.v # ""

\* the properties of DragDropOptions other than drag_handle and guide_box
DragDropPlainAttrs ==
    {"_draggable_x", "_draggable_y", "_drag_max_x", "_drag_max_y", "_drag_min_x", "_drag_min_y",
     "_drag_precision_x", "_drag_precision_y", "_drag_sensitivity", "_group_by", "_live_redraw"}

\* C1: AccessibilityLanguageOptions.from_dict(x.to_dict()) has the value of x for each
\* of the seven label properties, whenever all seven hold non-empty strings.
C1_LabelsRoundTrip ==
    ( /\ call.name = "roundtrip"
      /\ self.t = "AccessibilityLanguageOptions"
      /\ \A a \in LabelAttrs : IsNonEmptyStr(self["_" \o a]) )
    => ( /\ ret.t = "AccessibilityLanguageOptions"
         /\ \A a \in LabelAttrs : ret["_" \o a] = self["_" \o a] )

\* C2: DragDropOptions.from_dict(x.to_dict()) has the value of x for every property
\* other than drag_handle and guide_box (both None in x), also when drag_sensitivity
\* or live_redraw of x is None.
C2_DragDropRoundTrip ==
    ( /\ call.name = "roundtrip"
      /\ self.t = "DragDropOptions"
      /\ self._drag_handle = None
      /\ self._guide_box = None )
    => ( /\ ret.t = "DragDropOptions"
         /\ \A a \in DragDropPlainAttrs : ret[a] = self[a] )

\* C3: DragHandle() and DragHandle.from_dict({}) succeed and yield the documented
\* defaults.
C3_DragHandleDefaults ==
    ( \/ call.name = "DragHandle" /\ DOMAIN call.kwargs = {}
      \/ call.name = "DragHandle.from_dict" /\ DOMAIN call.as_dict = {} )
    => ret = [t |-> "DragHandle", _class_name |-> PStr("highcharts-drag-handle"),
              _color |-> PStr("#fff"), _cursor |-> None,
              _line_color |-> PStr("rgba(0, 0, 0, 0.6)"), _line_width |-> PNum(1),
              _path_formatter |-> None, _z_index |-> PNum(901)]

\* C4: GuideBoxOptions() and GuideBoxOptions.from_dict({}) succeed and yield the
\* documented defaults.
C4_GuideBoxOptionsDefaults ==
    ( \/ call.name = "GuideBoxOptions" /\ DOMAIN call.kwargs = {}
      \/ call.name = "GuideBoxOptions.from_dict" /\ DOMAIN call.as_dict = {} )
    => ret = [t |-> "GuideBoxOptions", _class_name |-> PStr("highcharts-drag-box-default"),
              _color |-> PStr("rgba(0, 0, 0, 0.1)"), _cursor |-> PStr("move"),
              _line_color |-> PStr("#888"), _line_width |-> PNum(1), _z_index |-> PNum(900)]

\* C5: assigning a non-empty plain colour string to color or line_color of a
\* DragHandle or a GuideBoxOptions succeeds and the property then holds that string;
\* assigning a falsy value stores None.
C5_PlainColourStored ==
    ( /\ call.name = "setattr"
      /\ call.attr \in {"color", "line_color"}
      /\ self.t \in {"DragHandle", "GuideBoxOptions"} )
    => ( /\ IsPlainColour(call.value) => ret = None /\ self["_" \o call.attr] = call.value
         /\ Falsy(call.value) => ret = None /\ self["_" \o call.attr] = None )

\* C6: GuideBox.from_dict(d) returns a GuideBox for every dictionary d, its default
\* None when d has no 'default' key, and GuideBox.from_dict(g.to_dict()) has the
\* default of g.
C6_GuideBoxFromDict ==
    /\ call.name = "GuideBox.from_dict" =>
          /\ ret.t = "GuideBox"
          /\ "default" \notin DOMAIN call.as_dict => ret._default = None
    /\ (call.name = "roundtrip" /\ self.t = "GuideBox") =>
          /\ ret.t = "GuideBox"
          /\ ret._default = self._default

\* the sample values no numeric property with a minimum of 0 accepts
IsValidIndividual(m) == \A k \in DOMAIN m : m[k] # PNum(-1)

\* C7: BoxPlotDragDropOptions and BulletDragDropOptions are constructed, directly and
\* through from_dict, for every valid argument set, and the inherited properties are
\* initialised by DragDropOptions.__init__ (drag_sensitivity 2, draggable_x None when
\* not supplied).
C7_SubclassesConstruct ==
    /\ ( /\ call.name \in {"BoxPlotDragDropOptions", "BulletDragDropOptions"}
         /\ IsValidIndividual(call.kwargs) )
       => ( /\ ret.t = call.name
            /\ "drag_sensitivity" \notin DOMAIN call.kwargs => ret._drag_sensitivity = PNum(2)
            /\ "draggable_x" \notin DOMAIN call.kwargs => ret._draggable_x = None )
    /\ ( /\ call.name \in {"BoxPlotDragDropOptions.from_dict", "BulletDragDropOptions.from_dict"}
         /\ IsValidIndividual(call.as_dict) )
       => ( /\ ret.t \in {"BoxPlotDragDropOptions", "BulletDragDropOptions"}
            /\ "dragSensitivity" \notin DOMAIN call.as_dict => ret._drag_sensitivity = PNum(2)
            /\ "draggableX" \notin DOMAIN call.as_dict => ret._draggable_x = None )

\* C8: a DragDropOptions constructed without live_redraw, or built by from_dict from
\* a dictionary without 'liveRedraw', has live_redraw None.
C8_LiveRedrawDefaultsToNone ==
    /\ ( /\ call.name = "DragDropOptions"
         /\ "live_redraw" \notin DOMAIN call.kwargs
         /\ ret.t = "DragDropOptions" )
       => ret._live_redraw = None
    /\ ( /\ call.name = "DragDropOptions.from_dict"
         /\ "liveRedraw" \notin DOMAIN call.as_dict
         /\ ret.t = "DragDropOptions" )
       => ret._live_redraw = None

\* C9: a BoxPlotDragDropOptions constructed without draggable_high, draggable_low,
\* draggable_q1 or draggable_q3 has that property None, and a BulletDragDropOptions
\* constructed without draggable_target has draggable_target None.
C9_IndividualFlagsDefaultToNone ==
    /\ call.name = "BoxPlotDragDropOptions" =>
          /\ ret.t = "BoxPlotDragDropOptions"
          /\ \A a \in {"draggable_high", "draggable_low", "draggable_q1", "draggable_q3"} :
                a \notin DOMAIN call.kwargs => ret["_" \o a] = None
    /\ call.name = "BulletDragDropOptions" =>
          /\ ret.t = "BulletDragDropOptions"
          /\ "draggable_target" \notin DOMAIN call.kwargs => ret._draggable_target = None

\* C10: the data of a ParetoSeries is None after construction with any data argument
\* and after every assignment to data, and an assignment to data raises nothing and
\* leaves the object as it was.
C10_ParetoDataIsNone ==
    /\ self.t = "ParetoSeries" => ParetoSeries_data(self) = None
    /\ (call.name = "setattr" /\ call.attr = "data") => ret = None /\ self = call.before
    /\ (call.name = "ParetoSeries" /\ ret.t = "ParetoSeries") =>
          ret = ParetoSeries_init([k \in DOMAIN call.kwargs \ {"data"} |-> call.kwargs[k]])

\* a list was assigned to the data of a ParetoSeries that has a base series
C10_Witness ==
    /\ call.name = "setattr"
    /\ call.attr = "data"
    /\ call.value = PList(<<PNum(1)>>)
    /\ self.t = "ParetoSeries"
    /\ self._base_series = PStr("s1")

\* C11: the base_series of a ParetoSeries is always None, a non-empty string or an
\* integer; assigning None stores None, a non-empty string stores that string, an
\* integer (0 included) stores that integer, and any other value raises and leaves
\* the stored value as it was.
C11_BaseSeriesValues ==
    /\ self.t = "ParetoSeries" =>
          self._base_series = None \/ IsNonEmptyStr(self._base_series) \/ self._base_series.t = "int"
    /\ (call.name = "setattr" /\ call.attr = "base_series") =>
          IF call.value = None \/ IsNonEmptyStr(call.value) \/ call.value.t = "int"
          THEN ret = None /\ self._base_series = call.value
          ELSE IsRaise(ret) /\ self = call.before
    /\ ( /\ call.name = "ParetoSeries"
         /\ "base_series" \in DOMAIN call.kwargs
         /\ call.kwargs.base_series.t = "int" )
       => ret.t = "ParetoSeries" /\ ret._base_series = call.kwargs.base_series

\* a list of non-empty strings
IsStrList(value) ==
    /\ value.t = "list"
    /\ \A i \in DOMAIN value.v : IsNonEmptyStr(value.v[i])

\* C12: the sets of a VennData is always None or a non-empty list of non-empty
\* strings; assigning a falsy value stores None, a single string s stores [s], and an
\* iterable of strings stores the list of its elements in order.
C12_SetsValues ==
    /\ self.t = "VennData" =>
          self._sets = None \/ (IsStrList(self._sets) /\ self._sets.v # <<>>)
    /\ (call.name = "setattr" /\ call.attr = "sets") =>
          /\ Falsy(call.value) => ret = None /\ self._sets = None
          /\ IsNonEmptyStr(call.value) => ret = None /\ self._sets = PList(<<call.value>>)
          /\ (call.value.t \in {"list", "iterator"} /\ IsStrList(PList(call.value.v))) =>
                ret = None /\ (Falsy(call.value) \/ self._sets = PList(call.value.v))

\* the items from_array visits in a value that is not a dict (the items of a dict
\* are its keys, which are strings)
ArrayItems(value) == IF value.t \in {"list", "iterator"} THEN value.v ELSE <<value>>

\* the kinds of item from_array converts
IsArrayItem(item) == item.t \in {"VennData", "dict", "NoneType", "EnforcedNullType"}

\* what one item of the kinds above becomes
ArrayItemResult(item, parsed) ==
    CASE item.t = "VennData" -> item
      [] item.t = "dict" -> VennData_from_dict(item.v, parsed)
      [] OTHER -> VennData_init(EmptyDict, parsed)

C14_ThousandsSeparator ==
    /\ self.t = "AccessibilityLanguageOptions" => self._thousands_separator # None
    /\ ( /\ call.name = "AccessibilityLanguageOptions"
         /\ "thousands_separator" \notin DOMAIN call.kwargs
         /\ ret.t = "AccessibilityLanguageOptions" )
       => ret._thousands_separator = PStr(DEFAULT_LANG_ACCESSIBILITY_THOUSANDSSEP)
    /\ ( /\ call.name = "AccessibilityLanguageOptions.from_dict"
         /\ "thousandsSep" \notin DOMAIN call.as_dict
         /\ ret.t = "AccessibilityLanguageOptions" )
       => ret._thousands_separator = PStr(DEFAULT_LANG_ACCESSIBILITY_THOUSANDSSEP)
    /\ (call.name = "setattr" /\ call.attr = "thousands_separator") =>
          /\ (Falsy(call.value) \/ call.value = EnforcedNull) =>
                ret = None /\ self._thousands_separator = EnforcedNull
          /\ IsNonEmptyStr(call.value) =>
                ret = None /\ self._thousands_separator = call.value

\* the default constant of each label property
LabelDefault(attr) ==
    CASE attr = "chart_container_label" -> DEFAULT_LANG_ACCESSIBILITY_CHART_CONTAINER_LABEL
      [] attr = "credits" -> DEFAULT_LANG_ACCESSIBILITY_CREDITS
      [] attr = "default_chart_title" -> DEFAULT_LANG_ACCESSIBILITY_DEFAULT_CHART_TITLE
      [] attr = "drillup_button" -> DEFAULT_LANG_ACCESSIBILITY_DRILLUP_BUTTON
      [] attr = "graphic_container_label" -> DEFAULT_LANG_ACCESSIBILITY_GRAPHIC_CONTAINER_LABEL
      [] attr = "svg_container_label" -> DEFAULT_LANG_ACCESSIBILITY_SVG_CONTAINER_LABEL
      [] attr = "svg_container_title" -> DEFAULT_LANG_ACCESSIBILITY_SVG_CONTAINER_TITLE

\* C15: each of the seven label properties of an AccessibilityLanguageOptions is a str
\* in every state; assigning None or the empty string resets the property to its
\* default constant and assigning a non-empty string stores that string.
C15_LabelsAreStrings ==
    /\ self.t = "AccessibilityLanguageOptions" =>
          \A a \in LabelAttrs : self["_" \o a].t = "str"
    /\ (call.name = "setattr" /\ call.attr \in LabelAttrs) =>
          /\ (call.value = None \/ call.value = PStr("")) =>
                ret = None /\ self["_" \o call.attr] = PStr(LabelDefault(call.attr))
          /\ IsNonEmptyStr(call.value) =>
                ret = None /\ self["_" \o call.attr] = call.value

\* None was assigned to a drillup_button that held another string
C15_Witness ==
    /\ call.name = "setattr"
    /\ call.attr = "drillup_button"
    /\ call.value = None
    /\ call.before._drillup_button = PStr("a")
    /\ self._drillup_button = PStr(DEFAULT_LANG_ACCESSIBILITY_DRILLUP_BUTTON)

\* C16: the drag_handle of a DragDropOptions is always None or a DragHandle and its
\* guide_box always None or a GuideBox, and from_dict of a dictionary whose
\* 'dragHandle' or 'guideBox' entry is a non-empty dictionary of valid keys succeeds
\* and yields an instance holding the nested object.
C16_NestedObjects ==
    /\ self.t = "DragDropOptions" =>
          /\ self._drag_handle.t \in {"NoneType", "DragHandle"}
          /\ self._guide_box.t \in {"NoneType", "GuideBox"}
    /\ ( /\ call.name = "DragDropOptions.from_dict"
         /\ "dragHandle" \in DOMAIN call.as_dict
         /\ DOMAIN call.as_dict \subseteq {"dragHandle", "draggableX"}
         /\ call.as_dict.dragHandle \in {PDict([lineWidth |-> PNum(3)]), PDict(PlainStyle)} )
       => ret.t = "DragDropOptions" /\ ret._drag_handle.t = "DragHandle"
    /\ ( /\ call.name = "DragDropOptions.from_dict"
         /\ "guideBox" \in DOMAIN call.as_dict
         /\ DOMAIN call.as_dict \subseteq {"guideBox", "draggableX"}
         /\ call.as_dict.guideBox = PDict([default |-> PDict(PlainStyle)]) )
       => ret.t = "DragDropOptions" /\ ret._guide_box.t = "GuideBox"

\* the keys _get_kwargs_from_dict reads and the keys _to_untrimmed_dict writes
VennKeysRead == {VennData_kwargs_keys[k] : k \in DOMAIN VennData_kwargs_keys}
VennKeysWritten == DOMAIN VennData_untrimmed_keys

\* C17: VennData reads the keys it writes, each property from the key it is written
\* under, and sets, value and drilldown of a VennData survive
\* VennData.from_dict(x.to_dict()).
C17_VennKeySymmetry ==
    /\ VennKeysRead = VennKeysWritten
    /\ \A k \in DOMAIN VennData_kwargs_keys :
          VennData_untrimmed_keys[VennData_kwargs_keys[k]] = k
    /\ (call.name = "roundtrip" /\ self.t = "VennData") =>
          /\ ret.t = "VennData"
          /\ ret._sets = self._sets
          /\ ret._value = self._value
          /\ ret._drilldown = self._drilldown

====
